---- MODULE Spec2Model ----
(***************************************************************************)
(* A model of agent.py: the per-connection session entry point my_agent,   *)
(* the project context builder (_read_pyproject, _run_command,             *)
(* _build_project_context, _print_project_inspection) and the tool         *)
(* Assistant.execute_python.                                               *)
(*                                                                         *)
(* Two kinds of text appear.  Tool results and command output are sliced   *)
(* and trimmed by the code, so they are sequences of one-character         *)
(* strings.  Lines of the project context are only ever concatenated, so   *)
(* they are strings, and the report is the sequence of its lines.          *)
(***************************************************************************)
EXTENDS Integers, Sequences, FiniteSets, TLC

VARIABLES
    deploy,      \* per session: what the worker process sees (environment, manifest, key files, git)
    inspection,  \* per session's process: outcome of _print_project_inspection (direct entry point)
    pc,          \* per session: position of the my_agent coroutine
    history,     \* per session: the lifecycle states passed, in order
    fault,       \* per session: the exception that left my_agent, or NoFault
    context,     \* per session: the project context my_agent built, or NoContext
    built,       \* per session: the objects my_agent has constructed so far
    persona,     \* per session: the context string bound into the Assistant, or NoContext
    greetings,   \* per session: number of session.generate_reply calls issued
    task,        \* per session: state of the execute_python coroutine
    snippet,     \* per session: the code argument of the current execute_python call
    future,      \* per session: outcome of the worker thread running _run, or NoOutcome
    procs,       \* per session: the state of the subprocess of each execute_python call so far
    result,      \* per session: what the last execute_python call handed to its caller
    loop,        \* the coroutine that is holding the event loop thread, or Free
    frames,      \* per session: audio frames handled by the session's other tasks
    joined       \* per session: the participants that joined the audio path, each with the strategy selected

vars ==
    <<deploy, inspection, pc, history, fault, context, built, persona, greetings,
      task, snippet, future, procs, result, loop, frames, joined>>

lifeVars ==
    <<pc, history, fault, context, built, persona, greetings>>

toolVars ==
    <<task, snippet, future, procs, result>>

Sessions ==
    {"s1", "s2"}

\* ---------------------------------------------------------------- constants

STT_MODEL ==
    "assemblyai/universal-streaming"

LLM_MODEL ==
    "gemini-3-flash-preview"

TTS_MODEL ==
    "inworld/inworld-tts-1.5-max"

REQUIRED_ENV_KEYS ==
    <<"LIVEKIT_URL", "LIVEKIT_API_KEY", "LIVEKIT_API_SECRET", "GOOGLE_API_KEY">>

MAX_TOOL_OUTPUT_CHARS ==
    4000

PYTHON_TOOL_TIMEOUT_SECONDS ==
    10

\* ------------------------------------------------------------------- bounds

\* execute_python calls modelled per session.
MaxToolCalls ==
    1

\* Audio frames modelled per session.
MaxFrames ==
    1

\* How far around the character budget the assembled text's length ranges.
Slack ==
    2

\* Participants modelled per session.
MaxParticipants ==
    2

\* Dependencies declared by the largest manifest.
MaxDeps ==
    2

\* --------------------------------------------------------------------- text

Digit ==
    <<"0", "1", "2", "3", "4", "5", "6", "7", "8", "9">>

RECURSIVE NatToText(_)
\* str(n) of a natural number, as characters.
NatToText(n) ==
    IF n < 10 THEN <<Digit[n + 1]>>
    ELSE NatToText(n \div 10) \o <<Digit[(n % 10) + 1]>>

\* str(n) of an integer, as characters (f"{result.returncode}").
IntToText(n) ==
    IF n < 0 THEN <<"-">> \o NatToText(-n) ELSE NatToText(n)

RECURSIVE NatToString(_)
\* str(n) of a natural number, as a string (f"{dependency_count}").
NatToString(n) ==
    IF n < 10 THEN Digit[n + 1]
    ELSE NatToString(n \div 10) \o Digit[(n % 10) + 1]

\* The characters str.strip() removes.
Whitespace ==
    {" ", "\n", "\t", "\r"}

RECURSIVE LStrip(_)
LStrip(t) ==
    IF t = <<>> \/ Head(t) \notin Whitespace THEN t ELSE LStrip(Tail(t))

RECURSIVE RStrip(_)
RStrip(t) ==
    IF t = <<>> \/ t[Len(t)] \notin Whitespace THEN t
    ELSE RStrip(SubSeq(t, 1, Len(t) - 1))

\* str.strip()
Strip(t) ==
    RStrip(LStrip(t))

\* n copies of the character c.
Repeat(c, n) ==
    [i \in 1..n |-> c]

\* t[:n]
Prefix(t, n) ==
    SubSeq(t, 1, IF n < Len(t) THEN n ELSE Len(t))

\* t.endswith(u)
EndsWith(t, u) ==
    /\ Len(u) <= Len(t)
    /\ SubSeq(t, Len(t) - Len(u) + 1, Len(t)) = u

\* t.startswith(u)
StartsWith(t, u) ==
    /\ Len(u) <= Len(t)
    /\ SubSeq(t, 1, Len(u)) = u

RECURSIVE Join(_, _)
\* sep.join(items), on strings.
Join(items, sep) ==
    IF items = <<>> THEN ""
    ELSE IF Len(items) = 1 THEN items[1]
    ELSE items[1] \o sep \o Join(Tail(items), sep)

\* dict.get(k, default) on a table given as a function from its keys.
Get(d, k, default) ==
    IF k \in DOMAIN d THEN d[k] ELSE default

\* -------------------------------------------------------- the deployment

\* The mandatory keys as a set.
RequiredKeys ==
    {REQUIRED_ENV_KEYS[i] : i \in DOMAIN REQUIRED_ENV_KEYS}

\* The secret values a deployment may hold, one per process.
Secret ==
    [s \in Sessions |-> IF s = "s1" THEN "sk-live-A" ELSE "sk-live-B"]

\* The process environments of session s's worker: each mandatory key is unset
\* (not in the domain), set to the empty string, or set to a secret.
Environments(s) ==
    UNION {[D -> {"", Secret[s]}] : D \in SUBSET RequiredKeys}

\* bool(os.getenv(key))
EnvTruthy(e, key) ==
    key \in DOMAIN e /\ e[key] # ""

\* The manifests: pyproject.toml absent, not parseable as TOML, or parsed to a
\* document whose tables are functions from their keys.
AbsentManifest ==
    [exists |-> FALSE, parses |-> FALSE, doc |-> <<>>]

MalformedManifest ==
    [exists |-> TRUE, parses |-> FALSE, doc |-> <<>>]

Document(d) ==
    [exists |-> TRUE, parses |-> TRUE, doc |-> d]

\* The dependency lists a manifest may declare.
DependencyLists ==
    {[i \in 1..n |-> "livekit-agents"] : n \in 0..MaxDeps}

FullProject(deps) ==
    ("name" :> "glosos") @@ ("version" :> "0.1.0")
        @@ ("requires-python" :> ">=3.11") @@ ("dependencies" :> deps)

Manifests ==
    {AbsentManifest, MalformedManifest, Document(<<>>),
     Document("project" :> ("name" :> "glosos"))}
        \cup {Document("project" :> FullProject(deps)) : deps \in DependencyLists}

\* What subprocess.run does with a command: it completes with an exit status and
\* the two captured streams, cannot launch it (OSError), or times out.
Completed(rc, out, err) ==
    [kind |-> "completed", returncode |-> rc, stdout |-> out, stderr |-> err]

LaunchError(cls, detail) ==
    [kind |-> "error", class |-> cls, detail |-> detail]

TimeoutExpired ==
    [kind |-> "timeout"]

PorcelainLine ==
    <<" ", "M", " ", "a", "g", "e", "n", "t", ".", "p", "y", "\n">>

NotARepo ==
    <<"f", "a", "t", "a", "l", ":", " ", "n", "o", "t", " ", "a", " ", "g", "i", "t", " ",
      "r", "e", "p", "o", "s", "i", "t", "o", "r", "y", "\n">>

GitWarning ==
    <<"w", "a", "r", "n", "i", "n", "g", ":", " ", "u", "n", "a", "b", "l", "e", " ",
      "t", "o", " ", "a", "c", "c", "e", "s", "s", " ", "c", "o", "n", "f", "i", "g", "\n">>

FileNotFoundName ==
    <<"F", "i", "l", "e", "N", "o", "t", "F", "o", "u", "n", "d", "E", "r", "r", "o", "r">>

NoGitDetail ==
    <<"[", "E", "r", "r", "n", "o", " ", "2", "]", " ", "N", "o", " ", "s", "u", "c", "h", " ",
      "f", "i", "l", "e", " ", "o", "r", " ", "d", "i", "r", "e", "c", "t", "o", "r", "y", ":", " ",
      "'", "g", "i", "t", "'">>

\* What `git status --short` can do in a deployment.
GitOutcomes ==
    {Completed(0, <<>>, <<>>), Completed(0, PorcelainLine, <<>>),
     Completed(0, <<>>, GitWarning), Completed(128, <<>>, NotARepo),
     LaunchError(FileNotFoundName, NoGitDetail), TimeoutExpired}

\* The key files other than agent.py and pyproject.toml that a checkout may hold.
OtherKeyFiles ==
    {"README.md", "uv.lock", ".env.example"}

Deployment(e, m, f, g) ==
    [env |-> e, manifest |-> m, files |-> f, git |-> g]

\* ------------------------------------------------- the project context

Returned(v) ==
    [ok |-> TRUE, value |-> v]

Raised(exc) ==
    [ok |-> FALSE, exc |-> exc]

\* _read_pyproject: the four metadata fields, or the exception tomllib.load raises.
ReadPyproject(m) ==
    IF ~m.exists THEN Returned(<<"unknown", "unknown", "unknown", 0>>)
    ELSE IF ~m.parses THEN Raised("TOMLDecodeError")
    ELSE LET project == Get(m.doc, "project", <<>>)
             name == Get(project, "name", "unknown")
             version == Get(project, "version", "unknown")
             requires_python == Get(project, "requires-python", "unknown")
             dependencies == Get(project, "dependencies", <<>>)
         IN  Returned(<<name, version, requires_python, Len(dependencies)>>)

\* f"{exc.__class__.__name__}: {exc}"
ExcText(cls, detail) ==
    cls \o <<":", " ">> \o detail

TimedOutText ==
    <<"t", "i", "m", "e", "d", " ", "o", "u", "t">>

\* _run_command: (exit status, trimmed output) of a command's run.
RunCommand(run) ==
    IF run.kind = "error" THEN <<127, ExcText(run.class, run.detail)>>
    ELSE IF run.kind = "timeout" THEN <<124, TimedOutText>>
    ELSE <<run.returncode,
           Strip(IF run.stdout # <<>> THEN run.stdout ELSE run.stderr)>>

\* A git_state that does not look at the exit status.
GitStateIgnoringStatus(run) ==
    IF RunCommand(run)[2] = <<>> THEN "clean" ELSE "dirty"

\* The git_state of _build_project_context.
GitState(run) ==
    LET git_code == RunCommand(run)[1]
        git_output == RunCommand(run)[2]
    IN  IF git_code = 0
        THEN (IF git_output = <<>> THEN "clean" ELSE "dirty")
        ELSE "unknown"

key_files ==
    <<"README.md", "agent.py", "pyproject.toml", "uv.lock", ".env.example">>

\* (root / file_name).exists()
FileExists(d, file_name) ==
    CASE file_name = "pyproject.toml" -> d.manifest.exists
      [] file_name = "agent.py" -> TRUE
      [] OTHER -> file_name \in d.files

\* An env_status built as f"{key}={os.getenv(key)}".
EnvStatusLeaky(e) ==
    [i \in DOMAIN REQUIRED_ENV_KEYS |->
        REQUIRED_ENV_KEYS[i] \o "="
            \o (IF REQUIRED_ENV_KEYS[i] \in DOMAIN e THEN e[REQUIRED_ENV_KEYS[i]]
                ELSE "None")]

\* The env_status list of _build_project_context.
EnvStatus(e) ==
    [i \in DOMAIN REQUIRED_ENV_KEYS |->
        REQUIRED_ENV_KEYS[i] \o "="
            \o (IF EnvTruthy(e, REQUIRED_ENV_KEYS[i]) THEN "set" ELSE "missing")]

Root ==
    "/srv/glosos"

\* ', '.join(files) if files else 'none'
FileList(files) ==
    IF files = <<>> THEN "none" ELSE Join(files, ", ")

\* _build_project_context: the lines of the report, or the exception that
\* leaves it.
BuildProjectContext(d) ==
    LET meta == ReadPyproject(d.manifest)
        existing_files == SelectSeq(key_files, LAMBDA f : FileExists(d, f))
        missing_files == SelectSeq(key_files, LAMBDA f : ~FileExists(d, f))
    IN  IF ~meta.ok THEN Raised(meta.exc)
        ELSE Returned(<<
            "Project context for your own source code:",
            "- root: " \o Root,
            "- project: " \o meta.value[1] \o " " \o meta.value[2],
            "- requires-python: " \o meta.value[3],
            "- dependencies-in-pyproject: " \o NatToString(meta.value[4]),
            "- models: stt=" \o STT_MODEL \o ", llm=" \o LLM_MODEL \o ", tts=" \o TTS_MODEL,
            "- key-files-present: " \o FileList(existing_files),
            "- key-files-missing: " \o FileList(missing_files),
            "- env-status: " \o Join(EnvStatus(d.env), ", "),
            "- git-working-tree: " \o GitState(d.git)>>)

NoReport ==
    [ok |-> FALSE, exc |-> "none"]

\* ------------------------------------------------------- execute_python

ExitCodePrefix ==
    <<"e", "x", "i", "t", "_", "c", "o", "d", "e", "=">>

StdoutHeader ==
    <<"\n", "s", "t", "d", "o", "u", "t", ":", "\n">>

StderrHeader ==
    <<"\n", "s", "t", "d", "e", "r", "r", ":", "\n">>

EmptyMarker ==
    <<"<", "e", "m", "p", "t", "y", ">">>

TruncationMarker ==
    <<"\n", ".", ".", ".", "<", "t", "r", "u", "n", "c", "a", "t", "e", "d", ">">>

TimedOutPrefix ==
    <<"t", "i", "m", "e", "d", " ", "o", "u", "t", " ", "a", "f", "t", "e", "r", " ">>

ErrorPrefix ==
    <<"e", "x", "e", "c", "u", "t", "i", "o", "n", " ", "e", "r", "r", "o", "r", ":", " ">>

ValueErrorName ==
    <<"V", "a", "l", "u", "e", "E", "r", "r", "o", "r">>

NullByteDetail ==
    <<"e", "m", "b", "e", "d", "d", "e", "d", " ", "n", "u", "l", "l", " ", "b", "y", "t", "e">>

NoInterpreterDetail ==
    <<"[", "E", "r", "r", "n", "o", " ", "2", "]", " ", "N", "o", " ", "s", "u", "c", "h", " ",
      "f", "i", "l", "e", " ", "o", "r", " ", "d", "i", "r", "e", "c", "t", "o", "r", "y", ":", " ",
      "'", "p", "y", "t", "h", "o", "n", "'">>

NameErrorText ==
    <<"N", "a", "m", "e", "E", "r", "r", "o", "r", ":", " ", "n", "a", "m", "e", " ", "'", "x", "'",
      " ", "i", "s", " ", "n", "o", "t", " ", "d", "e", "f", "i", "n", "e", "d", "\n">>

\* A snippet that writes the marker's own characters to a stream.
MarkerLookalike ==
    <<".", ".", ".", "<", "t", "r", "u", "n", "c", "a", "t", "e", "d", ">">>

\* The code argument, given by what running `python -c code` does: the launch
\* fails with an exception, or the process runs for `runtime` seconds and then
\* exits with a status having written the two streams.
Snippet(rt, rc, out, err) ==
    [fails |-> FALSE, class |-> <<>>, detail |-> <<>>,
     runtime |-> rt, returncode |-> rc, stdout |-> out, stderr |-> err]

Unlaunchable(cls, detail) ==
    [fails |-> TRUE, class |-> cls, detail |-> detail,
     runtime |-> 0, returncode |-> 0, stdout |-> <<>>, stderr |-> <<>>]

NoSnippet ==
    Snippet(0, 0, <<>>, <<>>)

\* The snippets of the session model: a no-op, one that fails with a
\* traceback, one that outlives the timeout, one holding a null byte, and any
\* snippet when the interpreter is missing.
Snippets ==
    {Snippet(0, 0, <<>>, <<>>),
     Snippet(1, 1, <<>>, NameErrorText),
     Snippet(PYTHON_TOOL_TIMEOUT_SECONDS + 1, 0, <<>>, <<>>),
     Unlaunchable(ValueErrorName, NullByteDetail),
     Unlaunchable(FileNotFoundName, NoInterpreterDetail)}

\* The length of the assembled text of a run with exit status 0 whose streams
\* are both empty after trimming.
BaseLength ==
    Len(ExitCodePrefix) + 1 + Len(StdoutHeader) + Len(EmptyMarker)
        + Len(StderrHeader) + Len(EmptyMarker)

\* The stdout lengths that bring the assembled text near the budget.
NearBudget ==
    {n \in (MAX_TOOL_OUTPUT_CHARS - BaseLength + Len(EmptyMarker) - Slack - 2)
             ..(MAX_TOOL_OUTPUT_CHARS - BaseLength + Len(EmptyMarker) + Slack) : n >= 0}

\* The snippets of the tool model: output on both streams, short and near the
\* budget, with and without surrounding whitespace.
BigSnippets ==
    {Snippet(0, rc, lead \o Repeat("a", n) \o trail, err) :
        rc \in {0, 1, -9},
        lead \in {<<>>, <<" ">>},
        n \in {0, 1} \cup NearBudget,
        trail \in {<<>>, <<"\n">>},
        err \in {<<>>, <<"\n">>, <<"e">>, <<"e", "\n", "e">>, MarkerLookalike, EmptyMarker}}

\* str(exc) of the FileNotFoundError that subprocess.run raises when cwd, the
\* project root, no longer exists: the message quotes the path.
MissingRootDetail(path) ==
    <<"[", "E", "r", "r", "n", "o", " ", "2", "]", " ", "N", "o", " ", "s", "u", "c", "h", " ",
      "f", "i", "l", "e", " ", "o", "r", " ", "d", "i", "r", "e", "c", "t", "o", "r", "y", ":", " ",
      "'">> \o path \o <<"'">>

\* An absolute path of n characters.
RootPath(n) ==
    <<"/">> \o Repeat("d", n - 1)

\* The lengths of the project root's path: a short one, and one of the size of
\* the output budget (Linux accepts paths of up to 4095 characters).
RootLengths ==
    {Len(ExitCodePrefix), MAX_TOOL_OUTPUT_CHARS - Slack}

\* The snippets of the tool model that do not complete: one that outlives the
\* timeout, one holding a null byte, and any snippet once the project root is
\* gone.
FailingSnippets ==
    {Snippet(PYTHON_TOOL_TIMEOUT_SECONDS + 1, 0, <<>>, <<>>),
     Unlaunchable(ValueErrorName, NullByteDetail)}
        \cup {Unlaunchable(FileNotFoundName, MissingRootDetail(RootPath(n))) :
                 n \in RootLengths}

ToolSnippets ==
    BigSnippets \cup FailingSnippets


\* A wait with a timeout that does not kill the child (Popen.communicate).
ProcLeftRunning ==
    "running"

\* The timeout handling of subprocess.run: the child is killed and waited for
\* before TimeoutExpired is raised.
ProcAfterTimeout ==
    "killed"

\* subprocess.run in _run: the outcome of the worker thread.
SubprocessRun(sn) ==
    IF sn.fails THEN LaunchError(sn.class, sn.detail)
    ELSE IF sn.runtime > PYTHON_TOOL_TIMEOUT_SECONDS THEN TimeoutExpired
    ELSE Completed(sn.returncode, sn.stdout, sn.stderr)

\* The assembled text with the streams as captured, not trimmed.
CombinedUntrimmed(run) ==
    ExitCodePrefix \o IntToText(run.returncode)
        \o StdoutHeader \o (IF run.stdout # <<>> THEN run.stdout ELSE EmptyMarker)
        \o StderrHeader \o (IF run.stderr # <<>> THEN run.stderr ELSE EmptyMarker)


\* The assembled text of a completed run.
Combined(run) ==
    LET stdout == Strip(run.stdout)
        stderr == Strip(run.stderr)
    IN  ExitCodePrefix \o IntToText(run.returncode)
            \o StdoutHeader \o (IF stdout # <<>> THEN stdout ELSE EmptyMarker)
            \o StderrHeader \o (IF stderr # <<>> THEN stderr ELSE EmptyMarker)

\* The truncation with `>=` for `>`.
TruncateOffByOne(combined) ==
    IF Len(combined) >= MAX_TOOL_OUTPUT_CHARS
    THEN Prefix(combined, MAX_TOOL_OUTPUT_CHARS) \o TruncationMarker
    ELSE combined

\* The truncation of the assembled text to the budget.
Truncate(combined) ==
    IF Len(combined) > MAX_TOOL_OUTPUT_CHARS
    THEN Prefix(combined, MAX_TOOL_OUTPUT_CHARS) \o TruncationMarker
    ELSE combined

\* except subprocess.TimeoutExpired
OnTimeout ==
    Returned(TimedOutPrefix \o IntToText(PYTHON_TOOL_TIMEOUT_SECONDS) \o <<"s">>)

\* execute_python with no `except Exception` clause: the exception leaves it.
OnExceptionReraise(run) ==
    Raised(run.class)

\* except Exception as exc
OnException(run) ==
    Returned(ErrorPrefix \o ExcText(run.class, run.detail))

\* What execute_python does with the outcome of the awaited thread: the text
\* it returns, or the exception it lets through.
ExecutePythonReturn(run) ==
    CASE run.kind = "timeout" -> OnTimeout
      [] run.kind = "error" -> OnException(run)
      [] OTHER -> Returned(Truncate(Combined(run)))

NoOutcome ==
    [kind |-> "none"]

NoResult ==
    [ok |-> FALSE, exc |-> "none"]

\* ------------------------------------------------------------- my_agent

Free ==
    "free"

NoFault ==
    "none"

NoContext ==
    <<>>

\* The states of a session in which its Assistant is bound and serving.
Live ==
    {"Started", "GreetingSent"}

\* The providers and objects AgentSession(...) is given and constructs.
PipelineObjects ==
    {"google.LLM", "silero.VAD", "MultilingualModel", "AgentSession"}

Advance(s, to) ==
    /\ pc' = [pc EXCEPT ![s] = to]
    /\ history' = [history EXCEPT ![s] = Append(@, to)]

\* A failure that takes the worker down: every session of the process fails.
FailWholeWorker(s, exc) ==
    /\ pc' = [t \in Sessions |-> "Failed"]
    /\ fault' = [fault EXCEPT ![s] = exc]
    /\ UNCHANGED history


Fail(s, exc) ==
    /\ pc' = [pc EXCEPT ![s] = "Failed"]
    /\ fault' = [fault EXCEPT ![s] = exc]
    /\ UNCHANGED history

\* A connection is accepted and the server runs my_agent for it.
Connect(s) ==
    /\ loop = Free
    /\ pc[s] = "Idle"
    /\ Advance(s, "Created")
    /\ UNCHANGED <<deploy, joined, inspection, fault, context, built, persona, greetings,
                   toolVars, loop, frames>>

\* my_agent testing `os.getenv("GOOGLE_API_KEY") is None`: an empty value passes.
CheckCredentialLenient(s) ==
    /\ loop = Free
    /\ pc[s] = "Created"
    /\ IF "GOOGLE_API_KEY" \in DOMAIN deploy[s].env
       THEN pc' = [pc EXCEPT ![s] = "Checked"] /\ UNCHANGED <<history, fault>>
       ELSE Fail(s, "RuntimeError")
    /\ UNCHANGED <<deploy, joined, inspection, context, built, persona, greetings,
                   toolVars, loop, frames>>

\* if not os.getenv("GOOGLE_API_KEY"): raise RuntimeError(...)
CheckCredential(s) ==
    /\ loop = Free
    /\ pc[s] = "Created"
    /\ IF EnvTruthy(deploy[s].env, "GOOGLE_API_KEY")
       THEN pc' = [pc EXCEPT ![s] = "Checked"] /\ UNCHANGED <<history, fault>>
       ELSE Fail(s, "RuntimeError")
    /\ UNCHANGED <<deploy, joined, inspection, context, built, persona, greetings,
                   toolVars, loop, frames>>

\* project_context = _build_project_context()
BuildContext(s) ==
    /\ loop = Free
    /\ pc[s] = "Checked"
    /\ LET r == BuildProjectContext(deploy[s])
       IN  IF r.ok
           THEN /\ Advance(s, "ContextBuilt")
                /\ context' = [context EXCEPT ![s] = r.value]
                /\ built' = [built EXCEPT ![s] = @ \cup {"project_context"}]
                /\ UNCHANGED fault
           ELSE /\ Fail(s, r.exc)
                /\ UNCHANGED <<context, built>>
    /\ UNCHANGED <<deploy, joined, inspection, persona, greetings, toolVars, loop, frames>>

\* my_agent constructing the AgentSession before it builds the project context.
ConfigurePipelineEarly(s) ==
    /\ loop = Free
    /\ pc[s] = "Checked"
    /\ Advance(s, "PipelineConfigured")
    /\ built' = [built EXCEPT ![s] = @ \cup PipelineObjects]
    /\ UNCHANGED <<deploy, joined, inspection, fault, context, persona, greetings,
                   toolVars, loop, frames>>

\* session = AgentSession(stt=..., llm=google.LLM(...), tts=..., vad=..., turn_detection=...)
ConfigurePipeline(s) ==
    /\ loop = Free
    /\ pc[s] = "ContextBuilt"
    /\ Advance(s, "PipelineConfigured")
    /\ built' = [built EXCEPT ![s] = @ \cup PipelineObjects]
    /\ UNCHANGED <<deploy, joined, inspection, fault, context, persona, greetings,
                   toolVars, loop, frames>>

\* agent=Assistant(project_context=project_context), the argument of session.start
BindPersona(s) ==
    /\ loop = Free
    /\ pc[s] = "PipelineConfigured"
    /\ Advance(s, "PersonaBound")
    /\ built' = [built EXCEPT ![s] = @ \cup {"Assistant"}]
    /\ persona' = [persona EXCEPT ![s] = context[s]]
    /\ UNCHANGED <<deploy, joined, inspection, fault, context, greetings, toolVars, loop, frames>>

\* session.start(...) is called and my_agent waits for it.
StartCall(s) ==
    /\ loop = Free
    /\ pc[s] = "PersonaBound"
    /\ pc' = [pc EXCEPT ![s] = "Starting"]
    /\ UNCHANGED <<deploy, joined, inspection, history, fault, context, built, persona,
                   greetings, toolVars, loop, frames>>

\* await session.start(...) completes, or raises and the exception leaves my_agent.
StartReturn(s) ==
    /\ loop = Free
    /\ pc[s] = "Starting"
    /\ \/ Advance(s, "Started") /\ UNCHANGED fault
       \/ Fail(s, "StartError")
    /\ UNCHANGED <<deploy, joined, inspection, context, built, persona, greetings,
                   toolVars, loop, frames>>

\* my_agent calling session.start without awaiting it: the greeting is issued
\* while the start is still pending.
GreetUnawaited(s) ==
    /\ loop = Free
    /\ pc[s] = "Starting"
    /\ greetings[s] = 0
    /\ greetings' = [greetings EXCEPT ![s] = @ + 1]
    /\ UNCHANGED <<deploy, joined, inspection, pc, history, fault, context, built, persona,
                   toolVars, loop, frames>>

\* await session.generate_reply(instructions="Greet the user and offer your assistance.")
Greet(s) ==
    /\ loop = Free
    /\ pc[s] = "Started"
    /\ Advance(s, "GreetingSent")
    /\ greetings' = [greetings EXCEPT ![s] = @ + 1]
    /\ UNCHANGED <<deploy, joined, inspection, fault, context, built, persona,
                   toolVars, loop, frames>>

\* ------------------------------------------------ execute_python, as a task

\* execute_python calling _run() itself: the event loop thread waits for the
\* subprocess.
LoopHeld(s) ==
    s

\* await asyncio.to_thread(_run): the coroutine is suspended and the event loop
\* is free while the thread waits for the subprocess.
LoopWhileRunning(s) ==
    Free

\* The thread of asyncio.to_thread is not interrupted when the awaiting task is
\* cancelled: subprocess.run goes on, and so does its child.
ProcsAfterCancel(ps) ==
    ps

\* execute_python called as a plain function, with no bound Assistant behind it.
DispatchUnbound(s, sn) ==
    /\ loop = Free
    /\ pc[s] \notin {"Idle", "Ended"}
    /\ task[s] \in {"idle", "returned", "raised"}
    /\ Len(procs[s]) < MaxToolCalls
    /\ snippet' = [snippet EXCEPT ![s] = sn]
    /\ task' = [task EXCEPT ![s] = "awaiting"]
    /\ procs' = [procs EXCEPT ![s] = Append(@, IF sn.fails THEN "unlaunched" ELSE "running")]
    /\ future' = [future EXCEPT ![s] = IF sn.fails THEN SubprocessRun(sn) ELSE NoOutcome]
    /\ result' = [result EXCEPT ![s] = NoResult]
    /\ loop' = LoopWhileRunning(s)
    /\ UNCHANGED <<deploy, joined, inspection, lifeVars, frames>>


\* The body of execute_python up to its await, for the code argument sn.
Dispatch(s, sn) ==
    /\ loop = Free
    /\ pc[s] \in Live
    /\ task[s] \in {"idle", "returned", "raised"}
    /\ Len(procs[s]) < MaxToolCalls
    /\ snippet' = [snippet EXCEPT ![s] = sn]
    /\ task' = [task EXCEPT ![s] = "awaiting"]
    /\ procs' = [procs EXCEPT ![s] = Append(@, IF sn.fails THEN "unlaunched" ELSE "running")]
    /\ future' = [future EXCEPT ![s] = IF sn.fails THEN SubprocessRun(sn) ELSE NoOutcome]
    /\ result' = [result EXCEPT ![s] = NoResult]
    /\ loop' = LoopWhileRunning(s)
    /\ UNCHANGED <<deploy, joined, inspection, lifeVars, frames>>

\* The language model calls the tool with some code.
ToolDispatch(s) ==
    \E sn \in Snippets : Dispatch(s, sn)

\* The language model calls the tool with the code chosen for the session.
ToolDispatchChosen(s) ==
    Dispatch(s, snippet[s])

\* subprocess.run returns or raises in the worker thread: the child has exited,
\* or has been killed on the timeout.
ProcFinish(s) ==
    /\ procs[s] # <<>>
    /\ procs[s][Len(procs[s])] = "running"
    /\ LET run == SubprocessRun(snippet[s])
       IN  /\ future' = [future EXCEPT ![s] = run]
           /\ procs' = [procs EXCEPT ![s][Len(procs[s])] =
                           IF run.kind = "timeout" THEN ProcAfterTimeout ELSE "exited"]
    /\ UNCHANGED <<deploy, joined, inspection, lifeVars, task, snippet, result, loop, frames>>

\* The awaited thread is done and execute_python runs to its end.
ToolResume(s) ==
    /\ loop \in {Free, s}
    /\ task[s] = "awaiting"
    /\ future[s] # NoOutcome
    /\ LET r == ExecutePythonReturn(future[s])
       IN  /\ result' = [result EXCEPT ![s] = r]
           /\ task' = [task EXCEPT ![s] = IF r.ok THEN "returned" ELSE "raised"]
    /\ loop' = Free
    /\ UNCHANGED <<deploy, joined, inspection, lifeVars, snippet, future, procs, frames>>

\* Another task of the session (audio input or output) handles a frame.
AudioStep(s) ==
    /\ loop = Free
    /\ pc[s] \in Live
    /\ frames[s] < MaxFrames
    /\ frames' = [frames EXCEPT ![s] = @ + 1]
    /\ UNCHANGED <<deploy, joined, inspection, lifeVars, toolVars, loop>>

\* The transport disconnects: the session ends and its pending tool task is
\* cancelled (CancelledError is no Exception, so it leaves execute_python).
Disconnect(s) ==
    /\ loop = Free
    /\ pc[s] \in Live
    /\ Advance(s, "Ended")
    /\ task' = [task EXCEPT ![s] = IF @ = "awaiting" THEN "cancelled" ELSE @]
    /\ procs' = [procs EXCEPT ![s] = ProcsAfterCancel(@)]
    /\ UNCHANGED <<deploy, joined, inspection, fault, context, built, persona, greetings,
                   snippet, future, result, loop, frames>>

\* rtc.ParticipantKind
ParticipantKinds ==
    {"STANDARD", "INGRESS", "EGRESS", "SIP", "AGENT"}

\* The noise_cancellation lambda of the room options.
NoiseCancellation(params) ==
    IF params.participant.kind = "SIP" THEN "BVCTelephony" ELSE "BVC"

\* An audio input that keeps the strategy selected for the session's first
\* participant.
ParticipantJoinCached(s) ==
    /\ loop = Free
    /\ pc[s] \in Live
    /\ Len(joined[s]) < MaxParticipants
    /\ \E kind \in ParticipantKinds :
          LET params == [participant |-> [kind |-> kind]]
              chosen == IF joined[s] = <<>> THEN NoiseCancellation(params)
                        ELSE joined[s][1].strategy
          IN  joined' = [joined EXCEPT ![s] =
                            Append(@, [kind |-> kind, strategy |-> chosen])]
    /\ UNCHANGED <<deploy, inspection, lifeVars, toolVars, loop, frames>>

\* A participant joins the audio path of a started session: the audio input
\* calls the selector with the participant.
ParticipantJoin(s) ==
    /\ loop = Free
    /\ pc[s] \in Live
    /\ Len(joined[s]) < MaxParticipants
    /\ \E kind \in ParticipantKinds :
          LET params == [participant |-> [kind |-> kind]]
          IN  joined' = [joined EXCEPT ![s] =
                            Append(@, [kind |-> kind,
                                       strategy |-> NoiseCancellation(params)])]
    /\ UNCHANGED <<deploy, inspection, lifeVars, toolVars, loop, frames>>

\* A call of _build_project_context in the process of s (the startup
\* inspection of the direct entry point).
InspectProject(s) ==
    /\ inspection[s] = NoReport
    /\ inspection' = [inspection EXCEPT ![s] = BuildProjectContext(deploy[s])]
    /\ UNCHANGED <<deploy, joined, lifeVars, toolVars, loop, frames>>

\* ------------------------------------------------------- specifications

Blank ==
    /\ inspection = [s \in Sessions |-> NoReport]
    /\ pc = [s \in Sessions |-> "Idle"]
    /\ history = [s \in Sessions |-> <<>>]
    /\ fault = [s \in Sessions |-> NoFault]
    /\ context = [s \in Sessions |-> NoContext]
    /\ built = [s \in Sessions |-> {}]
    /\ persona = [s \in Sessions |-> NoContext]
    /\ greetings = [s \in Sessions |-> 0]
    /\ task = [s \in Sessions |-> "idle"]
    /\ snippet = [s \in Sessions |-> NoSnippet]
    /\ future = [s \in Sessions |-> NoOutcome]
    /\ procs = [s \in Sessions |-> <<>>]
    /\ result = [s \in Sessions |-> NoResult]
    /\ loop = Free
    /\ frames = [s \in Sessions |-> 0]
    /\ joined = [s \in Sessions |-> <<>>]

\* The environments of the session model: all keys set, the credential unset,
\* the credential empty.
AllSet ==
    [k \in RequiredKeys |-> Secret["s1"]]

SessionEnvironments ==
    {AllSet,
     [k \in RequiredKeys \ {"GOOGLE_API_KEY"} |-> Secret["s1"]],
     [AllSet EXCEPT !["GOOGLE_API_KEY"] = ""]}

SessionManifests ==
    {AbsentManifest, MalformedManifest, Document("project" :> FullProject(<<"livekit-agents">>))}

\* The sessions of one worker: they see one deployment.
Init ==
    /\ \E e \in SessionEnvironments, m \in SessionManifests :
          deploy = [s \in Sessions |->
                      Deployment(e, m, OtherKeyFiles, Completed(0, <<>>, <<>>))]
    /\ Blank

Next ==
    \E s \in Sessions :
        \/ Connect(s)
        \/ CheckCredential(s)
        \/ BuildContext(s)
        \/ ConfigurePipeline(s)
        \/ BindPersona(s)
        \/ StartCall(s)
        \/ StartReturn(s)
        \/ Greet(s)
        \/ ToolDispatch(s)
        \/ ProcFinish(s)
        \/ ToolResume(s)
        \/ AudioStep(s)
        \/ Disconnect(s)

Spec ==
    Init /\ [][Next]_vars

\* The tool alone: one session that has been greeted, in a deployment with
\* every key set, is asked to run a snippet of the tool model.
ServingDeployment ==
    Deployment(AllSet, Document("project" :> FullProject(<<"livekit-agents">>)),
               OtherKeyFiles, Completed(0, <<>>, <<>>))

InitTool ==
    /\ deploy = [s \in Sessions |-> ServingDeployment]
    /\ inspection = [s \in Sessions |-> NoReport]
    /\ pc = [s \in Sessions |-> IF s = "s1" THEN "GreetingSent" ELSE "Idle"]
    /\ history = [s \in Sessions |->
                    IF s = "s1"
                    THEN <<"Created", "ContextBuilt", "PipelineConfigured",
                           "PersonaBound", "Started", "GreetingSent">>
                    ELSE <<>>]
    /\ fault = [s \in Sessions |-> NoFault]
    /\ context = [s \in Sessions |->
                    IF s = "s1" THEN BuildProjectContext(ServingDeployment).value
                    ELSE NoContext]
    /\ built = [s \in Sessions |->
                  IF s = "s1" THEN {"project_context", "Assistant"} \cup PipelineObjects
                  ELSE {}]
    /\ persona = context
    /\ greetings = [s \in Sessions |-> IF s = "s1" THEN 1 ELSE 0]
    /\ task = [s \in Sessions |-> "idle"]
    /\ \E sn \in ToolSnippets :
          snippet = [s \in Sessions |-> IF s = "s1" THEN sn ELSE NoSnippet]
    /\ future = [s \in Sessions |-> NoOutcome]
    /\ procs = [s \in Sessions |-> <<>>]
    /\ result = [s \in Sessions |-> NoResult]
    /\ loop = Free
    /\ frames = [s \in Sessions |-> 0]
    /\ joined = [s \in Sessions |-> <<>>]

NextTool ==
    \E s \in Sessions :
        \/ ToolDispatchChosen(s)
        \/ ProcFinish(s)
        \/ ToolResume(s)

SpecTool ==
    InitTool /\ [][NextTool]_vars

\* The checkouts of the context model: every manifest in a clean working
\* tree, and every outcome of the status command beside the full manifest.
Checkouts ==
    {<<m, OtherKeyFiles, Completed(0, <<>>, <<>>)>> : m \in Manifests}
        \cup {<<Document("project" :> FullProject(<<"livekit-agents">>)), {}, g>> :
                 g \in GitOutcomes}

\* The context builder alone: two processes started from one checkout, each
\* with its own environment.
InitCtx ==
    /\ \E c \in Checkouts :
          \E e1 \in Environments("s1"), e2 \in Environments("s2") :
              deploy = [s \in Sessions |->
                          Deployment(IF s = "s1" THEN e1 ELSE e2, c[1], c[2], c[3])]
    /\ Blank

NextCtx ==
    \E s \in Sessions : InspectProject(s)

SpecCtx ==
    InitCtx /\ [][NextCtx]_vars

\* ================================================================ claims

\* history[s] without the terminal state of a disconnect.
Lifecycle(s) ==
    SelectSeq(history[s], LAMBDA st : st # "Ended")

IsPrefix(a, b) ==
    /\ Len(a) <= Len(b)
    /\ a = SubSeq(b, 1, Len(a))

\* The session has left the credential check of my_agent.
PastCheck(s) ==
    pc[s] \notin {"Idle", "Created"}

\* C1: when GOOGLE_API_KEY is unset or empty, a session that has passed the
\* first statement of my_agent has failed with the RuntimeError and nothing
\* later has happened in it: no project context, no provider or AgentSession
\* or Assistant constructed, no start, no greeting, no tool call.
C1_MissingCredentialIsFatal ==
    \A s \in Sessions :
        (PastCheck(s) /\ ~EnvTruthy(deploy[s].env, "GOOGLE_API_KEY")) =>
            /\ pc[s] = "Failed"
            /\ fault[s] = "RuntimeError"
            /\ history[s] = <<"Created">>
            /\ context[s] = NoContext
            /\ built[s] = {}
            /\ persona[s] = NoContext
            /\ greetings[s] = 0
            /\ task[s] = "idle"
            /\ procs[s] = <<>>

\* A session has failed the credential check on an empty credential.
C1_Witness ==
    \E s \in Sessions :
        /\ "GOOGLE_API_KEY" \in DOMAIN deploy[s].env
        /\ deploy[s].env["GOOGLE_API_KEY"] = ""
        /\ pc[s] = "Failed"
        /\ fault[s] = "RuntimeError"

\* C2: the greeting is issued at most once, only in a session whose
\* session.start has completed, and never in one whose session.start failed.
C2_GreetingOnlyAfterStarted ==
    \A s \in Sessions :
        /\ greetings[s] <= 1
        /\ greetings[s] > 0 =>
              /\ pc[s] \in {"GreetingSent", "Ended"}
              /\ \E i \in DOMAIN history[s] : history[s][i] = "Started"
        /\ fault[s] = "StartError" => greetings[s] = 0

\* A session has been started and then greeted.
C2_Witness ==
    \E s \in Sessions :
        /\ pc[s] = "GreetingSent"
        /\ greetings[s] = 1
        /\ fault[s] = NoFault

\* The order of lifecycle states the claim C3 gives.
ClaimedOrder ==
    <<"Created", "ContextBuilt", "PersonaBound", "PipelineConfigured",
      "Started", "GreetingSent">>

\* The order in which my_agent passes them.
CodeOrder ==
    <<"Created", "ContextBuilt", "PipelineConfigured", "PersonaBound",
      "Started", "GreetingSent">>

TimedOutLiteral ==
    <<"t", "i", "m", "e", "d", " ", "o", "u", "t", " ", "a", "f", "t", "e", "r", " ",
      "1", "0", "s">>

\* The session of s is not ended by anything the tool did.
StillServing(s) ==
    /\ fault[s] = NoFault
    /\ pc[s] \in Live \cup {"Ended"}
    /\ (pc[s] \in Live /\ frames[s] < MaxFrames) => ENABLED AudioStep(s)

\* C4: an execute_python call whose subprocess timed out or could not be run
\* returns a text and lets no exception through: the timeout message, or
\* 'execution error: <class>: <detail>' for the exception of the launch; the
\* session goes on.
C4_FailureIsReturnedAsText ==
    \A s \in Sessions :
        /\ task[s] # "raised"
        /\ (task[s] = "returned" /\ future[s].kind = "timeout") =>
              /\ result[s] = Returned(TimedOutLiteral)
              /\ StillServing(s)
        /\ (task[s] = "returned" /\ future[s].kind = "error") =>
              /\ result[s].ok
              /\ result[s].value =
                    ErrorPrefix \o snippet[s].class \o <<":", " ">> \o snippet[s].detail
              /\ StillServing(s)

\* A call that could not launch its subprocess has returned, in a live session.
C4_Witness ==
    \E s \in Sessions :
        /\ task[s] = "returned"
        /\ future[s].kind = "error"
        /\ snippet[s].class = ValueErrorName
        /\ pc[s] \in Live

C6_NoProcessOutlivesTheSession ==
    \A s \in Sessions :
        pc[s] = "Ended" =>
            \A k \in DOMAIN procs[s] : procs[s][k] # "running"

\* The assembled text, the result and the outcome of a completed run of s.
Completes(s) ==
    task[s] = "returned" /\ future[s].kind = "completed"

\* C7, as claimed: the result of a completed run ends with the truncation
\* marker if and only if the assembled text was longer than
\* MAX_TOOL_OUTPUT_CHARS.
C7_MarkerIffOverBudget ==
    \A s \in Sessions :
        Completes(s) =>
            (EndsWith(result[s].value, TruncationMarker)
                <=> Len(Combined(future[s])) > MAX_TOOL_OUTPUT_CHARS)

\* C7, amended: execute_python appends the marker if and only if the assembled
\* text is longer than MAX_TOOL_OUTPUT_CHARS: then the result is the first
\* MAX_TOOL_OUTPUT_CHARS characters of the assembled text followed by the
\* marker, and otherwise it is the assembled text unchanged (which ends with
\* the marker only when the output of the code itself does).
C7_TruncatedIffOverBudget ==
    \A s \in Sessions :
        Completes(s) =>
            LET c == Combined(future[s])
                r == result[s].value
            IN  /\ result[s].ok
                /\ IF Len(c) > MAX_TOOL_OUTPUT_CHARS
                   THEN /\ Len(r) = MAX_TOOL_OUTPUT_CHARS + Len(TruncationMarker)
                        /\ SubSeq(r, 1, MAX_TOOL_OUTPUT_CHARS)
                              = SubSeq(c, 1, MAX_TOOL_OUTPUT_CHARS)
                        /\ EndsWith(r, TruncationMarker)
                   ELSE r = c

\* A run whose assembled text is one character over the budget has returned.
C7_Witness ==
    \E s \in Sessions :
        /\ Completes(s)
        /\ Len(Combined(future[s])) = MAX_TOOL_OUTPUT_CHARS + 1
        /\ EndsWith(result[s].value, TruncationMarker)

\* A step of another session is possible.
OthersCanStep(s) ==
    \A t \in Sessions \ {s} :
        /\ pc[t] = "Idle" => ENABLED Connect(t)
        /\ pc[t] = "Created" => ENABLED CheckCredential(t)
        /\ pc[t] = "Started" => ENABLED Greet(t)
        /\ (pc[t] \in Live /\ frames[t] < MaxFrames) => ENABLED AudioStep(t)

\* C8: while an execute_python call waits for its subprocess, the event loop
\* is not held: the other tasks of the session and the other sessions can
\* take a step.
C8_LoopFreeWhileToolRuns ==
    \A s \in Sessions :
        task[s] = "awaiting" =>
            /\ loop = Free
            /\ (pc[s] \in Live /\ frames[s] < MaxFrames) => ENABLED AudioStep(s)
            /\ pc[s] \in Live => ENABLED Disconnect(s)
            /\ OthersCanStep(s)

\* A tool subprocess is running, the session's audio task can handle a frame
\* and another session is about to be greeted.
C8_Witness ==
    \E s \in Sessions :
        /\ task[s] = "awaiting"
        /\ procs[s][Len(procs[s])] = "running"
        /\ frames[s] < MaxFrames
        /\ ENABLED AudioStep(s)
        /\ \E t \in Sessions \ {s} : pc[t] = "Started" /\ ENABLED Greet(t)

\* C9, as claimed: whatever the manifest, _build_project_context returns a
\* report and the session goes on: a session with its credential leaves the
\* context step with a context built, never with an exception.
C9_ContextBuilderNeverRaises ==
    \A s \in Sessions :
        /\ (PastCheck(s) /\ pc[s] # "Checked"
                /\ EnvTruthy(deploy[s].env, "GOOGLE_API_KEY")) =>
              /\ context[s] # NoContext
              /\ fault[s] \in {NoFault, "StartError"}
        /\ inspection[s] # NoReport => inspection[s].ok

\* The env-status line of a report.
EnvLine(r) ==
    r.value[9]

\* bool(os.getenv(key)) is the same in both environments, for every key.
SamePresence(e1, e2) ==
    \A k \in RequiredKeys : EnvTruthy(e1, k) <=> EnvTruthy(e2, k)

\* C10: the env-status line lists each mandatory key exactly once, in order,
\* each marked set or missing, and two environments in which the same keys
\* are set (non-empty) give the same line whatever the values.
C10_EnvStatusByPresenceOnly ==
    /\ \A s \in Sessions :
          inspection[s].ok =>
              \E mark \in [DOMAIN REQUIRED_ENV_KEYS -> {"set", "missing"}] :
                  EnvLine(inspection[s]) = "- env-status: "
                      \o Join([i \in DOMAIN REQUIRED_ENV_KEYS |->
                                  REQUIRED_ENV_KEYS[i] \o "=" \o mark[i]], ", ")
    /\ \A s, t \in Sessions :
          (inspection[s].ok /\ inspection[t].ok
                /\ SamePresence(deploy[s].env, deploy[t].env)) =>
              inspection[s] = inspection[t]

\* Two reports have been built in environments that hold different secrets
\* under the same keys, one key being empty in one and unset in the other.
C10_Witness ==
    /\ \A s \in Sessions : inspection[s].ok
    /\ SamePresence(deploy["s1"].env, deploy["s2"].env)
    /\ EnvTruthy(deploy["s1"].env, "LIVEKIT_API_SECRET")
    /\ deploy["s1"].env["LIVEKIT_API_SECRET"] # deploy["s2"].env["LIVEKIT_API_SECRET"]
    /\ ~EnvTruthy(deploy["s1"].env, "GOOGLE_API_KEY")
    /\ DOMAIN deploy["s1"].env # DOMAIN deploy["s2"].env

\* The git-working-tree line of a report.
GitLine(r) ==
    r.value[10]

\* The status command exited with status 0.
ExitedZero(run) ==
    run.kind = "completed" /\ run.returncode = 0

\* The status command wrote nothing but whitespace to either stream.
NoOutput(run) ==
    Strip(run.stdout) = <<>> /\ Strip(run.stderr) = <<>>

\* C11: the git-working-tree state of the report is one of clean, dirty,
\* unknown: clean iff the status command exits 0 with no output, dirty iff it
\* exits 0 with output, unknown for a nonzero exit status, a command that
\* cannot be launched and a timeout; no outcome of the command makes
\* _build_project_context raise.
C11_GitStateClassifiesEveryOutcome ==
    \A s \in Sessions :
        (inspection[s] # NoReport
              /\ (deploy[s].manifest.exists => deploy[s].manifest.parses)) =>
            LET run == deploy[s].git
                line == GitLine(inspection[s])
            IN  /\ inspection[s].ok
                /\ line \in {"- git-working-tree: clean", "- git-working-tree: dirty",
                             "- git-working-tree: unknown"}
                /\ line = "- git-working-tree: clean"
                      <=> (ExitedZero(run) /\ NoOutput(run))
                /\ line = "- git-working-tree: dirty"
                      <=> (ExitedZero(run) /\ ~NoOutput(run))
                /\ line = "- git-working-tree: unknown" <=> ~ExitedZero(run)

\* A report has been built where git could not be launched, and says unknown.
C11_Witness ==
    \E s \in Sessions :
        /\ deploy[s].git.kind = "error"
        /\ inspection[s].ok
        /\ GitLine(inspection[s]) = "- git-working-tree: unknown"

\* The audio input alone: two greeted sessions whose participants join.
InitAudio ==
    /\ deploy = [s \in Sessions |-> ServingDeployment]
    /\ inspection = [s \in Sessions |-> NoReport]
    /\ pc = [s \in Sessions |-> "GreetingSent"]
    /\ history = [s \in Sessions |->
                    <<"Created", "ContextBuilt", "PipelineConfigured",
                      "PersonaBound", "Started", "GreetingSent">>]
    /\ fault = [s \in Sessions |-> NoFault]
    /\ context = [s \in Sessions |-> BuildProjectContext(ServingDeployment).value]
    /\ built = [s \in Sessions |-> {"project_context", "Assistant"} \cup PipelineObjects]
    /\ persona = context
    /\ greetings = [s \in Sessions |-> 1]
    /\ task = [s \in Sessions |-> "idle"]
    /\ snippet = [s \in Sessions |-> NoSnippet]
    /\ future = [s \in Sessions |-> NoOutcome]
    /\ procs = [s \in Sessions |-> <<>>]
    /\ result = [s \in Sessions |-> NoResult]
    /\ loop = Free
    /\ frames = [s \in Sessions |-> 0]
    /\ joined = [s \in Sessions |-> <<>>]

NextAudio ==
    \E s \in Sessions : ParticipantJoin(s)

SpecAudio ==
    InitAudio /\ [][NextAudio]_vars

\* C12: for every participant that joined, in any order and after any
\* earlier participants, the strategy selected is BVCTelephony if and only if
\* the participant's kind is SIP, and BVC otherwise.
C12_TelephonyIffSip ==
    \A s \in Sessions :
        \A i \in DOMAIN joined[s] :
            /\ joined[s][i].strategy \in {"BVC", "BVCTelephony"}
            /\ joined[s][i].strategy = "BVCTelephony" <=> joined[s][i].kind = "SIP"

\* A session holds a SIP participant that joined after a participant of
\* another kind.
C12_Witness ==
    \E s \in Sessions :
        /\ Len(joined[s]) = 2
        /\ joined[s][1].kind = "STANDARD"
        /\ joined[s][2].kind = "SIP"
        /\ joined[s][2].strategy = "BVCTelephony"

\* Everything the model holds about session s.
View(s) ==
    <<deploy[s], inspection[s], pc[s], history[s], fault[s], context[s], built[s],
      persona[s], greetings[s], task[s], snippet[s], future[s], procs[s],
      result[s], frames[s], joined[s]>>

\* The next statement of my_agent in session s can be executed.
CanProceed(s) ==
    /\ pc[s] = "Idle" => ENABLED Connect(s)
    /\ pc[s] = "Created" => ENABLED CheckCredential(s)
    /\ pc[s] = "Checked" => ENABLED BuildContext(s)
    /\ pc[s] = "ContextBuilt" => ENABLED ConfigurePipeline(s)
    /\ pc[s] = "PipelineConfigured" => ENABLED BindPersona(s)
    /\ pc[s] = "PersonaBound" => ENABLED StartCall(s)
    /\ pc[s] = "Starting" => ENABLED StartReturn(s)
    /\ pc[s] = "Started" => ENABLED Greet(s)
    /\ (task[s] = "awaiting" /\ future[s] # NoOutcome) => ENABLED ToolResume(s)

\* What session s has computed is what it computes from its own inputs.
OwnResults(s) ==
    /\ context[s] # NoContext => context[s] = BuildProjectContext(deploy[s]).value
    /\ task[s] = "returned" =>
          result[s] = ExecutePythonReturn(SubprocessRun(snippet[s]))

ResultHead(run) ==
    ExitCodePrefix \o IntToText(run.returncode) \o StdoutHeader

\* What a section of the result holds for a stream.
Section(stream) ==
    IF Strip(stream) = <<>> THEN EmptyMarker ELSE Strip(stream)

\* The result the interface describes for a snippet that exits 0 in silence.
NoOpResult ==
    <<"e", "x", "i", "t", "_", "c", "o", "d", "e", "=", "0", "\n",
      "s", "t", "d", "o", "u", "t", ":", "\n", "<", "e", "m", "p", "t", "y", ">", "\n",
      "s", "t", "d", "e", "r", "r", ":", "\n", "<", "e", "m", "p", "t", "y", ">">>

\* C14, as claimed: the result of a completed run starts with exit_code=<n>,
\* its stdout section is the marker <empty> if and only if stdout is empty
\* after trimming, and its stderr section is the marker <empty> if and only if
\* stderr is empty after trimming.
C14_MarkerIffStreamEmpty ==
    \A s \in Sessions :
        Completes(s) =>
            LET run == future[s]
                r == result[s].value
            IN  /\ StartsWith(r, ResultHead(run))
                /\ StartsWith(r, ResultHead(run) \o EmptyMarker \o StderrHeader)
                      <=> Strip(run.stdout) = <<>>
                /\ EndsWith(r, StderrHeader \o EmptyMarker)
                      <=> Strip(run.stderr) = <<>>

\* C14, amended: the result of a completed run starts with exit_code=<n> and
\* the stdout header; it is the head followed by the two sections, each the
\* trimmed stream or <empty> for a stream that is empty after trimming, when
\* that text fits the budget, and its first MAX_TOOL_OUTPUT_CHARS characters
\* followed by the truncation marker otherwise. In a result that was not
\* truncated a section reads <empty> exactly when the stream is empty after
\* trimming or is itself the text <empty>; a silent run that exits 0 returns
\* NoOpResult.
C14_SectionsUnlessTruncated ==
    \A s \in Sessions :
        Completes(s) =>
            LET run == future[s]
                r == result[s].value
                full == ResultHead(run) \o Section(run.stdout)
                            \o StderrHeader \o Section(run.stderr)
            IN  /\ result[s].ok
                /\ StartsWith(r, ResultHead(run))
                /\ IF Len(full) <= MAX_TOOL_OUTPUT_CHARS
                   THEN /\ r = full
                        /\ EndsWith(r, StderrHeader \o EmptyMarker)
                              <=> Strip(run.stderr) \in {<<>>, EmptyMarker}
                   ELSE r = Prefix(full, MAX_TOOL_OUTPUT_CHARS) \o TruncationMarker
                /\ (run.returncode = 0 /\ Strip(run.stdout) = <<>>
                        /\ Strip(run.stderr) = <<>>) => r = NoOpResult

\* A snippet that exits 0 having written only whitespace has returned the
\* result with both markers.
C14_Witness ==
    \E s \in Sessions :
        /\ Completes(s)
        /\ future[s].returncode = 0
        /\ future[s].stdout = <<" ", "\n">>
        /\ future[s].stderr = <<"\n">>
        /\ result[s].value = NoOpResult

\* The longest result the interface allows.
ResultBound ==
    MAX_TOOL_OUTPUT_CHARS + Len(TruncationMarker)

\* C15, as claimed: every text execute_python returns, on every return path
\* (success, truncated success, timeout message, execution error message), is
\* at most MAX_TOOL_OUTPUT_CHARS plus the length of the truncation marker
\* long, whatever the output or the failure detail.
C15_EveryResultIsBounded ==
    \A s \in Sessions :
        (task[s] = "returned" /\ result[s].ok) =>
            Len(result[s].value) <= ResultBound

\* execute_python has been entered in session s at some time.
ToolUsed(s) ==
    procs[s] # <<>> \/ task[s] # "idle"

\* session.start(...) of session s has been called, with the Assistant that
\* carries the tool constructed for it.
StartCalled(s) ==
    /\ pc[s] \in {"Starting", "Started", "GreetingSent", "Ended", "Failed"}
    /\ "PersonaBound" \in {history[s][i] : i \in DOMAIN history[s]}
    /\ "Assistant" \in built[s]
    /\ persona[s] # NoContext

\* C16: a session in which execute_python has been entered, and so every
\* session with a tool subprocess, is one whose session.start has been called
\* with the bound Assistant; a session that failed the credential check has
\* entered no tool call and started no subprocess.
C16_ToolOnlyAfterStart ==
    \A s \in Sessions :
        /\ ToolUsed(s) => StartCalled(s)
        /\ (pc[s] = "Failed" /\ fault[s] = "RuntimeError") => ~ToolUsed(s)

\* A tool subprocess is running in a session that has been started.
C16_Witness ==
    \E s \in Sessions :
        /\ procs[s] # <<>>
        /\ procs[s][Len(procs[s])] = "running"
        /\ task[s] = "awaiting"
        /\ StartCalled(s)

====
